---- MODULE Spec2Model ----
(***************************************************************************)
(* Model of the Formula-1 didactic simulations (joaquinkuster/MPI-OpenMP). *)
(*                                                                         *)
(* The repository holds three revisions of the web server:                 *)
(*   "canal" : src/main.go lines 1-313   - sink is a buffered channel,     *)
(*             workers join through an unbuffered done channel, the       *)
(*             result slice is written without a mutex;                    *)
(*   "mutex" : src/main.go lines 315-611 - sink is a buffered channel,     *)
(*             workers join through a WaitGroup, the result slice is       *)
(*             written under a mutex, the ring sends no summary;           *)
(*   "func"  : src/unnamed/part_000      - the sink is a closure calling   *)
(*             conn.WriteJSON directly, WaitGroup and mutex.               *)
(* The variable `variante` selects the revision; it never changes.         *)
(*                                                                         *)
(* Durations are float64 seconds with two decimals in the source; here a   *)
(* duration is the pair <<seconds, hundredths>>.                           *)
(***************************************************************************)
EXTENDS Integers, Sequences, FiniteSets, TLC

\* ------------------------------------------------------------ bounds
\* Largest unit count (sectores / autos) and repetition count (vueltas) a
\* command carries in the model.
MaxSectores == 2
MaxVueltas == 2
\* Unrecognised commands the modelled client sends on one connection.
MaxOtros == 1
\* Buffer of the channel `enviar` (100 in the source, main.go:152); kept
\* small so that a full buffer is reached.
Capacidad == 2
\* Most trials (autos * vueltas) a start-parallel command of the modelled
\* client asks for.
MaxTrabajo == 4
\* Unit counts of the start-parallel commands the modelled client sends: the
\* model runs at most two worker goroutines side by side.
CantidadesAutos == {-1, 0, 1, 2}

\* ------------------------------------------------------------ program constants
RangoSector == 2300
BaseSector == 1200
RangoVuelta == 2099
BaseVuelta == 7500

VARIABLES
    variante,     \* which revision of the server runs
    conexion,     \* "abierta" | "rota" (peer gone, I/O fails) | "cerrada" (conn.Close())
    manejador,    \* position of wsHandler's command loop
    enviar,       \* contents of the buffered channel `enviar`
    cerrado,      \* close(enviar) has run
    consumidor,   \* position of the goroutine that ranges over `enviar`
    enMano,       \* <<msg>> while the consumer is inside conn.WriteJSON(msg), else <<>>
    entregados,   \* per producer: records conn.WriteJSON has written to the transport, in order
    enviados,     \* per producer: records whose submit completed (history)
    caido,        \* the process died of an unrecovered panic
    mpi,          \* the ring run (correrMPI / runMPI)
    omp,          \* the coordinator of the parallel run (correrOpenMP / runOpenMP)
    autos,        \* the worker goroutines of the parallel run
    resultados,   \* the shared result slice
    mutex,        \* <<>> when free, <<w>> when worker w holds it, <<-1>> the coordinator
    pendientes,   \* WaitGroup counter / signals still to be received on `done`
    otros,        \* unrecognised commands the handler has answered
    escritores,   \* func: producers that are inside conn.WriteJSON
    anillo        \* the concurrent ring of src/mpi.go: mpi(), its timer, the five nodes

vars == <<variante, conexion, manejador, enviar, cerrado, consumidor, enMano,
          entregados, enviados, caido, mpi, omp, autos, resultados,
          mutex, pendientes, otros, escritores, anillo>>

parVars == <<omp, autos, resultados, mutex, pendientes>>

Variantes == {"canal", "mutex", "func"}
ConCanal == variante \in {"canal", "mutex"}

\* ------------------------------------------------------------ values
\* float64(n) / 100.0 for a non-negative integer n of hundredths.
Segundos(n) == <<n \div 100, n % 100>>
\* a < b on durations.
Menor(a, b) == a[1] < b[1] \/ (a[1] = b[1] /\ a[2] < b[2])
\* The literal 1e9.
MejorInicial == <<1000000000, 0>>
IntnAmplio(n) == {0, n + 100}
\* Outcomes of rand.Intn(n) the model draws: both ends of [0, n).
Intn(n) == {0, n - 1}

PMpi == <<"mpi", 0>>
POmp == <<"omp", 0>>
PWs == <<"ws", 0>>
PAuto(w) == <<"auto", w>>
AutoIDs == {n - 1 : n \in {c \in CantidadesAutos : c >= 1}}
Productores == {PMpi, POmp, PWs} \cup {PAuto(w) : w \in AutoIDs}

\* MensajeWS{Tipo, Topico, Texto/Obj}; `prod` tags the submitting task.
\* Texto and Obj are kept structured: <<class, arguments...>>.
MensajeWS(p, tipo, topico, texto) ==
    [prod |-> p, tipo |-> tipo, topico |-> topico, texto |-> texto]

\* A numeric command field: <<>> when absent or not a number, <<n>> otherwise.
Campo(f, defecto) == IF f = <<>> THEN defecto ELSE f[1]

\* ------------------------------------------------------------ the sink
PuedeEnviarLleno == IF ConCanal THEN ~cerrado ELSE TRUE
\* `enviar <- msg` can complete (buffer not full), or send(msg) is a call.
PuedeEnviar == IF ConCanal THEN ~cerrado /\ Len(enviar) < Capacidad ELSE TRUE
\* `enviar <- msg` on a closed channel panics (also for a sender that was
\* blocked on a full buffer when the channel was closed).
EnvioPanico == ConCanal /\ cerrado

\* conn.WriteJSON(msg) succeeded: msg is the next record on the transport.
Entregar(e, msg) == [e EXCEPT ![msg.prod] = Append(@, msg)]

\* The successful submit of msg by its producer.
\* canal/mutex: the record enters the channel buffer.
\* func: send() calls conn.WriteJSON(msg) and drops its error.
Enviar(msg) ==
    /\ PuedeEnviar
    /\ enviados' = [enviados EXCEPT ![msg.prod] = Append(@, msg)]
    /\ escritores' = escritores \ {msg.prod}
    /\ IF ConCanal
       THEN /\ enviar' = Append(enviar, msg)
            /\ entregados' = entregados
       ELSE /\ enviar' = enviar
            /\ entregados' = IF conexion = "abierta"
                             THEN Entregar(entregados, msg)
                             ELSE entregados

TomarUltimo(q) == q[Len(q)]
\* for msg := range enviar: take the oldest buffered record.
Tomar(q) == Head(q)

\* The consumer receives the next record, or leaves the loop when the
\* channel is closed and drained.
ConsumidorRecibe ==
    /\ ~caido /\ ConCanal /\ consumidor = "recibir"
    /\ IF enviar # <<>>
       THEN /\ enMano' = <<Tomar(enviar)>>
            /\ enviar' = Tail(enviar)
            /\ consumidor' = "escribir"
       ELSE /\ cerrado
            /\ consumidor' = "fin"
            /\ UNCHANGED <<enMano, enviar>>
    /\ UNCHANGED <<anillo, variante, conexion, manejador, cerrado, entregados, enviados, caido, mpi, otros, escritores>>
    /\ UNCHANGED parVars

\* conn.WriteJSON(msg): on an error the consumer logs and returns.
ConsumidorEscribe ==
    /\ ~caido /\ ConCanal /\ consumidor = "escribir"
    /\ IF conexion = "abierta"
       THEN /\ entregados' = Entregar(entregados, enMano[1])
            /\ consumidor' = "recibir"
       ELSE /\ entregados' = entregados
            /\ consumidor' = "error"
    /\ enMano' = <<>>
    /\ UNCHANGED <<anillo, variante, conexion, manejador, enviar, cerrado, enviados, caido, mpi, otros, escritores>>
    /\ UNCHANGED parVars

\* ------------------------------------------------------------ the connection
\* The peer goes away: every later read and write on conn fails.
Desconectar ==
    /\ ~caido /\ conexion = "abierta"
    /\ conexion' = "rota"
    /\ UNCHANGED <<anillo, variante, manejador, enviar, cerrado, consumidor, enMano,
                   entregados, enviados, caido, mpi, otros, escritores>>
    /\ UNCHANGED parVars

\* conn.ReadJSON fails (peer gone, or a frame that is not JSON): the command
\* loop returns.  canal/mutex: the deferred close(enviar) and conn.Close()
\* follow.  func: the reader goroutine calls conn.Close() and returns.
LeerError ==
    /\ ~caido /\ manejador = "leer"
    /\ manejador' = IF ConCanal THEN "cerrar_canal" ELSE "cerrar_conn"
    /\ UNCHANGED <<anillo, variante, conexion, enviar, cerrado, consumidor, enMano,
                   entregados, enviados, caido, mpi, otros, escritores>>
    /\ UNCHANGED parVars

\* defer close(enviar)
CerrarCanal ==
    /\ ~caido /\ manejador = "cerrar_canal"
    /\ cerrado' = TRUE
    /\ manejador' = "cerrar_conn"
    /\ UNCHANGED <<anillo, variante, conexion, enviar, consumidor, enMano,
                   entregados, enviados, caido, mpi, otros, escritores>>
    /\ UNCHANGED parVars

\* defer conn.Close()  /  _ = conn.Close()
CerrarConn ==
    /\ ~caido /\ manejador = "cerrar_conn"
    /\ conexion' = "cerrada"
    /\ manejador' = "fin"
    /\ UNCHANGED <<anillo, variante, enviar, cerrado, consumidor, enMano,
                   entregados, enviados, caido, mpi, otros, escritores>>
    /\ UNCHANGED parVars

\* ------------------------------------------------------------ the ring run
SigueVueltaCorta(v, vueltas) == v < vueltas
\* for v := 1; v <= vueltas; v++
SigueVuelta(v, vueltas) == v <= vueltas
SigueSectorDeMas(s, sectores) == s <= sectores + 1
\* for s := 1; s <= sectores; s++
SigueSector(s, sectores) == s <= sectores
VueltasSinResolver(vueltas) == vueltas
\* if vueltas < 1 { vueltas = 1 }
VueltasResueltas(vueltas) == IF vueltas < 1 THEN 1 ELSE vueltas
InvalidoSinCero(unidades) == unidades < 0
\* if sectores < 1 / if cantidadAutos < 1
Invalido(unidades) == unidades < 1
\* float64(rand.Intn(2300)+1200) / 100.0
TiemposSector == {Segundos(r + BaseSector) : r \in Intn(RangoSector)}

MpiSalirSinFin(m) == [m EXCEPT !.pc = "fin"]
\* After the loops: the summary record, which the "mutex" revision lacks.
MpiSalir(m) ==
    [m EXCEPT !.pc = IF variante = "mutex" THEN "final" ELSE "resumen"]
MpiTrasVuelta(m) ==
    IF SigueVuelta(m.v + 1, m.vueltas)
    THEN [m EXCEPT !.pc = "vuelta", !.v = m.v + 1]
    ELSE MpiSalir(m)
MpiTrasSector(m) ==
    IF SigueSector(m.s + 1, m.sectores)
    THEN [m EXCEPT !.s = m.s + 1]
    ELSE MpiTrasVuelta(m)
MpiTrasCabecera(m) ==
    IF SigueSector(1, m.sectores)
    THEN [m EXCEPT !.pc = "sector", !.s = 1]
    ELSE MpiTrasVuelta(m)
MpiTrasInicio(m) ==
    IF SigueVuelta(1, m.vueltas)
    THEN [m EXCEPT !.pc = "vuelta", !.v = 1]
    ELSE MpiSalir(m)

MpiMsg(tipo, texto) == MensajeWS(PMpi, tipo, "mpi", texto)

\* One send statement of the ring run and the code up to the next one.
\* The run has no deferred call: a panic of the send ends the process.
MpiPaso(msg, sig) ==
    /\ ~caido
    /\ IF EnvioPanico
       THEN /\ caido' = TRUE
            /\ UNCHANGED <<mpi, enviar, entregados, enviados, escritores>>
       ELSE /\ Enviar(msg)
            /\ mpi' = sig
            /\ caido' = caido
    /\ UNCHANGED <<anillo, variante, conexion, manejador, cerrado, consumidor, enMano, otros>>
    /\ UNCHANGED parVars

\* sectores < 1: the error record.
MpiError ==
    /\ mpi.pc = "entrada" /\ Invalido(mpi.sectores)
    /\ MpiPaso(MpiMsg("registro", <<"error">>), [mpi EXCEPT !.pc = "fin_error"])

\* sectores < 1: the done record, then return.
MpiFinError ==
    /\ mpi.pc = "fin_error"
    /\ MpiPaso(MpiMsg("finalizado", <<"fin">>), [mpi EXCEPT !.pc = "fin"])

\* The start record, with the resolved parameters.
MpiInicio ==
    /\ mpi.pc = "entrada" /\ ~Invalido(mpi.sectores)
    /\ LET m == [mpi EXCEPT !.vueltas = VueltasResueltas(mpi.vueltas)]
       IN MpiPaso(MpiMsg("registro", <<"inicio", m.sectores, m.vueltas>>),
                  MpiTrasInicio(m))

\* "=== Vuelta v ==="
MpiCabecera ==
    /\ mpi.pc = "vuelta"
    /\ MpiPaso(MpiMsg("registro", <<"vuelta", mpi.v>>), MpiTrasCabecera(mpi))

\* One sector: draw the duration, sleep, send the per-sector record.
MpiSector ==
    /\ mpi.pc = "sector"
    /\ \E t \in TiemposSector :
          MpiPaso(MpiMsg("registro", <<"sector", mpi.s, t, mpi.v>>),
                  MpiTrasSector(mpi))

\* The summary record (canal, func).
MpiResumen ==
    /\ mpi.pc = "resumen"
    /\ MpiPaso(MpiMsg("resumen", <<"MPI finalizado">>), [mpi EXCEPT !.pc = "final"])

\* The done record.
MpiFinal ==
    /\ mpi.pc = "final"
    /\ MpiPaso(MpiMsg("finalizado", <<"fin">>), [mpi EXCEPT !.pc = "fin"])

\* ------------------------------------------------------------ the dispatcher
DefectoSectores == IF variante = "mutex" THEN 5 ELSE 1
DefectoVueltasMpi == IF variante = "mutex" THEN 3 ELSE 1
\* Numeric fields the modelled client sends.
CamposSectores == {<<n>> : n \in (-1)..MaxSectores}
CamposVueltas == {<<n>> : n \in (-1)..MaxVueltas}

\* case "iniciar_mpi" / "start_mpi": go correrMPI(sectores, vueltas, enviar),
\* for a client whose fields are drawn from FS and FV.  `pedidas` keeps the
\* argument `vueltas` as the call passed it (the run overwrites `vueltas`),
\* `campos` the two fields of the command.
\* The model starts at most one ring run on a connection.
LeerMPIde(FS, FV) ==
    /\ ~caido /\ manejador = "leer" /\ conexion = "abierta" /\ mpi.pc = "no"
    /\ \E fs \in FS, fv \in FV :
          mpi' = [pc |-> "entrada",
                  sectores |-> Campo(fs, DefectoSectores),
                  vueltas |-> Campo(fv, DefectoVueltasMpi),
                  pedidas |-> Campo(fv, DefectoVueltasMpi),
                  campos |-> <<fs, fv>>,
                  v |-> 0, s |-> 0]
    /\ UNCHANGED <<anillo, variante, conexion, manejador, enviar, cerrado, consumidor, enMano,
                   entregados, enviados, caido, otros, escritores>>
    /\ UNCHANGED parVars

LeerMPI == LeerMPIde(CamposSectores, CamposVueltas)

\* ------------------------------------------------------------ the parallel run
\* float64(rand.Intn(2099)+7500) / 100.0
TiemposVuelta == {Segundos(r + BaseVuelta) : r \in Intn(RangoVuelta)}
MejoraPropiaOIguala(t, mejor) == ~Menor(mejor, t)
\* if tiempoVuelta < mejor
MejoraPropia(t, mejor) == Menor(t, mejor)
MejoraGeneralNunca(r, g) == FALSE
MejoraGeneralOIguala(r, g) == ~Menor(g.MejorVuelta, r.MejorVuelta)
\* if r.MejorVuelta < mejorGeneral.MejorVuelta
MejoraGeneral(r, g) == Menor(r.MejorVuelta, g.MejorVuelta)

ResultadoOpenMP(id, mejor, cantidad) ==
    [AutoID |-> id, MejorVuelta |-> mejor, CantidadVueltas |-> cantidad]
\* An element of make([]ResultadoOpenMP, n).
ResultadoCero == ResultadoOpenMP(0, <<0, 0>>, 0)
\* ResultadoOpenMP{AutoID: -1, MejorVuelta: 1e9}
GeneralInicial == ResultadoOpenMP(-1, MejorInicial, 0)
\* ResultadoOpenMP{AutoID: autoID + 1, MejorVuelta: mejor, CantidadVueltas: vueltas}
ResultadoDe(autoID, mejor, vueltas) == ResultadoOpenMP(autoID + 1, mejor, vueltas)
GuardarEnCero(res, autoID, r) == [res EXCEPT ![0] = r]
\* resultados[autoID] = r
Guardar(res, autoID, r) == [res EXCEPT ![autoID] = r]

\* for _, r := range resultados { if r.MejorVuelta < mejorGeneral.MejorVuelta { mejorGeneral = r } }
RECURSIVE Escanear(_, _, _)
Escanear(res, i, g) ==
    IF i \notin DOMAIN res
    THEN g
    ELSE Escanear(res, i + 1, IF MejoraGeneral(res[i], g) THEN res[i] ELSE g)
MejorGeneral(res) == Escanear(res, 0, GeneralInicial)

OmpMsg(tipo, texto) == MensajeWS(POmp, tipo, "openmp", texto)
AutoMsg(w, texto) == MensajeWS(PAuto(w), "registro", "openmp", texto)

\* One send statement of the coordinator and the code up to the next
\* blocking point.  No deferred call: a panic of the send ends the process.
OmpPaso(msg, sig, aut, res, pen) ==
    /\ ~caido
    /\ IF EnvioPanico
       THEN /\ caido' = TRUE
            /\ UNCHANGED <<omp, autos, resultados, pendientes,
                           enviar, entregados, enviados, escritores>>
       ELSE /\ Enviar(msg)
            /\ omp' = sig
            /\ autos' = aut
            /\ resultados' = res
            /\ pendientes' = pen
            /\ caido' = caido
    /\ UNCHANGED <<anillo, variante, conexion, manejador, cerrado, consumidor, enMano,
                   mpi, mutex, otros>>

\* cantidadAutos < 1: the error record.
OmpError ==
    /\ omp.pc = "entrada" /\ Invalido(omp.cantidadAutos)
    /\ OmpPaso(OmpMsg("registro", <<"error">>), [omp EXCEPT !.pc = "fin_error"],
               autos, resultados, pendientes)

\* cantidadAutos < 1: the done record, then return.
OmpFinError ==
    /\ omp.pc = "fin_error"
    /\ OmpPaso(OmpMsg("finalizado", <<"fin">>), [omp EXCEPT !.pc = "fin"],
               autos, resultados, pendientes)

\* A worker goroutine at the top of its function: mejor := 1e9, v := 1.
AutoNuevo(vueltas) ==
    [pc |-> IF SigueVuelta(1, vueltas) THEN "vuelta"
            ELSE IF variante = "canal" THEN "escribir" ELSE "lock",
     v |-> 1, mejor |-> MejorInicial, hist |-> <<>>, panico |-> FALSE]

\* The start record, then make(resultados), then one goroutine per auto
\* (wg.Add(1) each); the coordinator goes on to wait for all of them.
OmpInicio ==
    /\ omp.pc = "entrada" /\ ~Invalido(omp.cantidadAutos)
    /\ LET vueltas == VueltasResueltas(omp.vueltas)
           n == omp.cantidadAutos
       IN OmpPaso(OmpMsg("registro", <<"inicio", n, vueltas>>),
                  [omp EXCEPT !.pc = "esperar", !.vueltas = vueltas],
                  [w \in 0..(n - 1) |-> AutoNuevo(vueltas)],
                  [w \in 0..(n - 1) |-> ResultadoCero],
                  n)

\* After a trial (and its new-best record): the next trial, or the write.
AutoTrasVuelta(a) ==
    IF SigueVuelta(a.v + 1, omp.vueltas)
    THEN [a EXCEPT !.pc = "vuelta", !.v = a.v + 1]
    ELSE [a EXCEPT !.pc = IF variante = "canal" THEN "escribir" ELSE "lock"]

\* One send statement of worker w.  A panic of the send unwinds the
\* goroutine: its deferred call (done <- / wg.Done()) runs before the
\* process dies.
AutoPaso(w, msg, sig) ==
    /\ ~caido
    /\ IF EnvioPanico
       THEN /\ autos' = [autos EXCEPT ![w].pc = "defer", ![w].panico = TRUE]
            /\ UNCHANGED <<enviar, entregados, enviados, escritores>>
       ELSE /\ Enviar(msg)
            /\ autos' = [autos EXCEPT ![w] = sig]
    /\ UNCHANGED <<anillo, variante, conexion, manejador, cerrado, consumidor, enMano,
                   caido, mpi, omp, resultados, mutex, pendientes, otros>>

\* One trial: draw the duration, sleep, send the trial record, compare.
AutoVuelta(w) ==
    /\ w \in DOMAIN autos /\ autos[w].pc = "vuelta"
    /\ \E t \in TiemposVuelta :
          LET a == [autos[w] EXCEPT !.hist = Append(@, t)]
          IN AutoPaso(w, AutoMsg(w, <<"vuelta", w + 1, a.v, t>>),
                      IF MejoraPropia(t, a.mejor)
                      THEN [a EXCEPT !.mejor = t, !.pc = "mejor"]
                      ELSE AutoTrasVuelta(a))

\* The new-personal-best record.
AutoMejor(w) ==
    /\ w \in DOMAIN autos /\ autos[w].pc = "mejor"
    /\ AutoPaso(w, AutoMsg(w, <<"mejor", w + 1, autos[w].mejor>>),
                AutoTrasVuelta(autos[w]))

\* mutex.Lock() (mutex, func)
AutoLock(w) ==
    /\ ~caido /\ w \in DOMAIN autos /\ autos[w].pc = "lock"
    /\ mutex = <<>>
    /\ mutex' = <<w>>
    /\ autos' = [autos EXCEPT ![w].pc = "escribir"]
    /\ UNCHANGED <<anillo, variante, conexion, manejador, enviar, cerrado, consumidor, enMano,
                   entregados, enviados, caido, mpi, omp, resultados,
                   pendientes, otros, escritores>>

\* resultados[autoID] = ResultadoOpenMP{...}; mutex.Unlock() (mutex, func)
AutoEscribir(w) ==
    /\ ~caido /\ w \in DOMAIN autos /\ autos[w].pc = "escribir"
    /\ resultados' = Guardar(resultados, w, ResultadoDe(w, autos[w].mejor, omp.vueltas))
    /\ mutex' = IF variante = "canal" THEN mutex ELSE <<>>
    /\ autos' = [autos EXCEPT ![w].pc = "defer"]
    /\ UNCHANGED <<anillo, variante, conexion, manejador, enviar, cerrado, consumidor, enMano,
                   entregados, enviados, caido, mpi, omp, pendientes, otros, escritores>>

\* The deferred call: done <- struct{}{} (canal: completes when the
\* coordinator receives) or wg.Done().  It also runs while the goroutine
\* unwinds from a panic.
AutoDefer(w) ==
    /\ ~caido /\ w \in DOMAIN autos /\ autos[w].pc = "defer"
    /\ variante = "canal" => omp.pc = "esperar" /\ pendientes > 0
    /\ pendientes' = pendientes - 1
    /\ autos' = [autos EXCEPT ![w].pc = IF autos[w].panico THEN "fatal" ELSE "fin"]
    /\ UNCHANGED <<anillo, variante, conexion, manejador, enviar, cerrado, consumidor, enMano,
                   entregados, enviados, caido, mpi, omp, resultados,
                   mutex, otros, escritores>>

\* The panic reaches the top of the goroutine: the process exits.
AutoFatal(w) ==
    /\ ~caido /\ w \in DOMAIN autos /\ autos[w].pc = "fatal"
    /\ caido' = TRUE
    /\ UNCHANGED <<anillo, variante, conexion, manejador, enviar, cerrado, consumidor, enMano,
                   entregados, enviados, mpi, otros, escritores>>
    /\ UNCHANGED parVars

\* for i := 0; i < cantidadAutos; i++ { <-done }  /  wg.Wait()  has returned.
OmpBarrera ==
    /\ ~caido /\ omp.pc = "esperar" /\ pendientes = 0
    /\ omp' = [omp EXCEPT !.pc = "agregar"]
    /\ UNCHANGED <<anillo, variante, conexion, manejador, enviar, cerrado, consumidor, enMano,
                   entregados, enviados, caido, mpi, autos, resultados,
                   mutex, pendientes, otros, escritores>>

\* The scan for the overall best (mutex: between mutex.Lock() and Unlock()).
OmpAgregar ==
    /\ ~caido /\ omp.pc = "agregar"
    /\ variante = "mutex" => mutex = <<>>
    /\ omp' = [omp EXCEPT !.pc = "resumen", !.mejorGeneral = MejorGeneral(resultados)]
    /\ UNCHANGED <<anillo, variante, conexion, manejador, enviar, cerrado, consumidor, enMano,
                   entregados, enviados, caido, mpi, autos, resultados,
                   mutex, pendientes, otros, escritores>>

\* The summary record: the per-auto table and the overall best.
OmpResumen ==
    /\ omp.pc = "resumen"
    /\ OmpPaso(OmpMsg("resumen", <<"resumen", resultados, omp.mejorGeneral>>),
               [omp EXCEPT !.pc = "final"], autos, resultados, pendientes)

\* The done record.
OmpFinal ==
    /\ omp.pc = "final"
    /\ OmpPaso(OmpMsg("finalizado", <<"fin">>), [omp EXCEPT !.pc = "fin"],
               autos, resultados, pendientes)

DefectoAutos == IF variante = "mutex" THEN 4 ELSE 3
DefectoVueltasOmp == 5
CamposAutos == {<<n>> : n \in CantidadesAutos}

\* case "iniciar_openmp" / "start_openmp": go correrOpenMP(autos, vueltas, enviar).
\* The model starts at most one parallel run on a connection.
LeerOMPde(FA, FV) ==
    /\ ~caido /\ manejador = "leer" /\ conexion = "abierta" /\ omp.pc = "no"
    /\ \E fa \in FA, fv \in FV :
          omp' = [pc |-> "entrada",
                  cantidadAutos |-> Campo(fa, DefectoAutos),
                  vueltas |-> Campo(fv, DefectoVueltasOmp),
                  pedidas |-> Campo(fv, DefectoVueltasOmp),
                  campos |-> <<fa, fv>>,
                  mejorGeneral |-> GeneralInicial]
    /\ UNCHANGED <<anillo, variante, conexion, manejador, enviar, cerrado, consumidor, enMano,
                   entregados, enviados, caido, mpi, autos, resultados,
                   mutex, pendientes, otros, escritores>>

\* The start-parallel commands of the modelled client: the run they ask for
\* makes at most MaxTrabajo trials in all.
ParesOmp ==
    {par \in CamposAutos \X CamposVueltas :
        par[1][1] * VueltasResueltas(par[2][1]) <= MaxTrabajo}
LeerOMP == \E par \in ParesOmp : LeerOMPde({par[1]}, {par[2]})

LeerOtroConTopico ==
    /\ ~caido /\ manejador = "leer" /\ conexion = "abierta" /\ otros < MaxOtros
    /\ Enviar(MensajeWS(PWs, "registro", "mpi", <<"otro", otros + 1>>))
    /\ otros' = otros + 1
    /\ UNCHANGED <<anillo, variante, conexion, manejador, cerrado, consumidor, enMano,
                   caido, mpi>>
    /\ UNCHANGED parVars

\* default: the handler itself submits one record without topic, then reads on.
\* (It cannot meet a closed channel: only its own return closes it.)
LeerOtro ==
    /\ ~caido /\ manejador = "leer" /\ conexion = "abierta" /\ otros < MaxOtros
    /\ Enviar(MensajeWS(PWs, "registro", "", <<"otro", otros + 1>>))
    /\ otros' = otros + 1
    /\ UNCHANGED <<anillo, variante, conexion, manejador, cerrado, consumidor, enMano,
                   caido, mpi>>
    /\ UNCHANGED parVars

\* ------------------------------------------------------------ writers (func)
\* Producer p stands at a statement that sends a record.
PorEnviar(p) ==
    \/ p = PMpi /\ mpi.pc \in {"entrada", "fin_error", "vuelta", "sector",
                                "resumen", "final"}
    \/ p = POmp /\ omp.pc \in {"entrada", "fin_error", "resumen", "final"}
    \/ \E w \in DOMAIN autos : p = PAuto(w) /\ autos[w].pc \in {"vuelta", "mejor"}

\* func: producer p has called send(msg) and is inside conn.WriteJSON(msg);
\* the step that submits the record is the return of that call.  Nothing
\* in send() keeps a second goroutine from entering at the same time.
EntraWriteJSON(p) ==
    /\ ~caido /\ variante = "func"
    /\ p \notin escritores /\ PorEnviar(p)
    /\ escritores' = escritores \cup {p}
    /\ UNCHANGED <<anillo, variante, conexion, manejador, enviar, cerrado, consumidor, enMano,
                   entregados, enviados, caido, mpi, otros>>
    /\ UNCHANGED parVars

\* ------------------------------------------------------------ the concurrent ring
\* src/mpi.go: five goroutines NodoAnilo(0..4) joined by the channels
\* canales[0..4]; node id reads canales[id-1] (node 0 reads canales[4]) and
\* writes canales[id].  `anillo` is a record:
\*   principal : position of mpi(): "enviar" (line 48), "esperar" (line 50), "fin"
\*   done      : close(done) has run (the timer goroutine, lines 33-36)
\*   canales   : contents of the five buffered channels
\*   nodos     : per node, pc "select" | "enviar" (holds msj, at line 17) | "fin"
\*   wg        : counter of WgAnillo
\*   hechos    : per node, calls of WgAnillo.Done() it has made
\*   ultimo    : id of the node that received last (-1: none yet)
NodoIDs == 0..4
\* make(chan string, 1)
CapCanal == 1
\* The channel index node id receives from / sends to (lines 43-46).
InSiMismo(id) == id
In(id) == IF id = 0 THEN 4 ELSE id - 1
Out(id) == id
\* fmt.Sprintf("Ping desde nodo %d", n)
Ping(n) == <<"Ping desde nodo", n>>
\* A channel after a receive.
SinQuitar(q) == q
Quitar(q) == Tail(q)
\* case <-done is ready.
DoneNunca(a) == FALSE
DoneListo(a) == a.done

AnilloInicial ==
    [principal |-> "enviar",
     done |-> FALSE,
     canales |-> [c \in NodoIDs |-> <<>>],
     nodos |-> [i \in NodoIDs |-> [pc |-> "select", msj |-> <<>>]],
     wg |-> 5,
     hechos |-> [i \in NodoIDs |-> 0],
     ultimo |-> -1]

otrosVars == <<variante, conexion, manejador, enviar, cerrado, consumidor, enMano,
               entregados, enviados, caido, mpi, omp, autos, resultados,
               mutex, pendientes, otros, escritores>>

\* canales[0] <- "Ping desde nodo 1"
PrincipalEnvia ==
    /\ anillo.principal = "enviar"
    /\ Len(anillo.canales[0]) < CapCanal
    /\ anillo' = [anillo EXCEPT !.principal = "esperar",
                                !.canales[0] = Append(@, Ping(1))]
    /\ UNCHANGED otrosVars

\* WgAnillo.Wait() returns.
PrincipalEspera ==
    /\ anillo.principal = "esperar"
    /\ anillo.wg = 0
    /\ anillo' = [anillo EXCEPT !.principal = "fin"]
    /\ UNCHANGED otrosVars

\* The timer goroutine: time.Sleep(1 * time.Minute); close(done).
CerrarDone ==
    /\ ~anillo.done
    /\ anillo' = [anillo EXCEPT !.done = TRUE]
    /\ UNCHANGED otrosVars

\* select: case msj := <-in
NodoRecibe(id) ==
    /\ anillo.nodos[id].pc = "select"
    /\ anillo.canales[In(id)] # <<>>
    /\ anillo' = [anillo EXCEPT
                     !.nodos[id] = [pc |-> "enviar", msj |-> <<Head(anillo.canales[In(id)])>>],
                     !.canales[In(id)] = Quitar(@),
                     !.ultimo = id]
    /\ UNCHANGED otrosVars

\* fmt.Println(msj); time.Sleep; out <- "Ping desde nodo id+1"
NodoEnvia(id) ==
    /\ anillo.nodos[id].pc = "enviar"
    /\ Len(anillo.canales[Out(id)]) < CapCanal
    /\ anillo' = [anillo EXCEPT
                     !.nodos[id] = [pc |-> "select", msj |-> <<>>],
                     !.canales[Out(id)] = Append(@, Ping(id + 1))]
    /\ UNCHANGED otrosVars

\* select: case <-done: WgAnillo.Done(); return
NodoTermina(id) ==
    /\ anillo.nodos[id].pc = "select"
    /\ DoneListo(anillo)
    /\ anillo' = [anillo EXCEPT
                     !.nodos[id].pc = "fin",
                     !.wg = @ - 1,
                     !.hechos[id] = @ + 1]
    /\ UNCHANGED otrosVars

NextAnillo ==
    \/ PrincipalEnvia \/ PrincipalEspera \/ CerrarDone
    \/ \E id \in NodoIDs : NodoRecibe(id) \/ NodoEnvia(id) \/ NodoTermina(id)

\* ------------------------------------------------------------ initial state
MpiLibre ==
    [pc |-> "no", sectores |-> 0, vueltas |-> 0, pedidas |-> 0, campos |-> <<>>,
     v |-> 0, s |-> 0]
OmpLibre ==
    [pc |-> "no", cantidadAutos |-> 0, vueltas |-> 0, pedidas |-> 0, campos |-> <<>>,
     mejorGeneral |-> GeneralInicial]

Init ==
    /\ variante \in Variantes
    /\ conexion = "abierta"
    /\ manejador = "leer"
    /\ enviar = <<>>
    /\ cerrado = FALSE
    /\ consumidor = IF ConCanal THEN "recibir" ELSE "no"
    /\ enMano = <<>>
    /\ entregados = [p \in Productores |-> <<>>]
    /\ enviados = [p \in Productores |-> <<>>]
    /\ caido = FALSE
    /\ mpi = MpiLibre
    /\ omp = OmpLibre
    /\ autos = <<>>
    /\ resultados = <<>>
    /\ mutex = <<>>
    /\ pendientes = 0
    /\ otros = 0
    /\ escritores = {}
    /\ anillo = AnilloInicial

Conexion ==
    \/ Desconectar \/ LeerError \/ CerrarCanal \/ CerrarConn
    \/ ConsumidorRecibe \/ ConsumidorEscribe

Anillo ==
    \/ LeerMPI \/ MpiError \/ MpiFinError \/ MpiInicio \/ MpiCabecera
    \/ MpiSector \/ MpiResumen \/ MpiFinal

Paralelo ==
    \/ LeerOMP \/ OmpError \/ OmpFinError \/ OmpInicio
    \/ OmpBarrera \/ OmpAgregar \/ OmpResumen \/ OmpFinal
    \/ \E w \in AutoIDs :
          \/ AutoVuelta(w) \/ AutoMejor(w) \/ AutoLock(w)
          \/ AutoEscribir(w) \/ AutoDefer(w) \/ AutoFatal(w)

\* One connection on which the client starts a ring run.
NextMPI == Conexion \/ Anillo
SpecMPI == Init /\ [][NextMPI]_vars

\* The same, with a client that also sends unrecognised commands: the
\* dispatcher and the ring run are concurrent producers.
NextWS == Conexion \/ Anillo \/ LeerOtro
SpecWS == Init /\ [][NextWS]_vars

\* One connection on which the client starts a parallel run.
NextOMP == Conexion \/ Paralelo
SpecOMP == Init /\ [][NextOMP]_vars

\* Fields of the short runs: one unit at most, and a repetition count below
\* 1, which both runs resolve to 1.
CamposBreves == {<<0>>, <<1>>}
CamposSinVueltas == {<<0>>}

\* One connection on which the client starts a ring run and a parallel run,
\* both short, and sends unrecognised commands; in the func revision the
\* calls of conn.WriteJSON are steps of their own.
NextTodo ==
    \/ Conexion
    \/ LeerMPIde(CamposBreves, CamposSinVueltas)
    \/ MpiError \/ MpiFinError \/ MpiInicio \/ MpiCabecera
    \/ MpiSector \/ MpiResumen \/ MpiFinal
    \/ LeerOMPde(CamposBreves, CamposSinVueltas)
    \/ OmpError \/ OmpFinError \/ OmpInicio
    \/ OmpBarrera \/ OmpAgregar \/ OmpResumen \/ OmpFinal
    \/ \E w \in {0} :
          \/ AutoVuelta(w) \/ AutoMejor(w) \/ AutoLock(w)
          \/ AutoEscribir(w) \/ AutoDefer(w) \/ AutoFatal(w)
    \/ LeerOtro
    \/ \E p \in Productores : EntraWriteJSON(p)
SpecTodo == Init /\ [][NextTodo]_vars

\* A field that is absent from the command, or is not a JSON number.
SinCampo == <<>>

\* One connection on which the client sends start commands whose fields may
\* be absent, and unrecognised commands; the runs the dispatcher starts are
\* followed up to their `go` statement.
NextCmd ==
    \/ Conexion
    \/ LeerMPIde(CamposSectores \cup {SinCampo}, CamposVueltas \cup {SinCampo})
    \/ LeerOMPde(CamposAutos \cup {SinCampo}, CamposVueltas \cup {SinCampo})
    \/ LeerOtro
SpecCmd == Init /\ [][NextCmd]_vars

\* The concurrent ring, under every scheduling of its goroutines.
SpecAnillo == Init /\ [][NextAnillo]_vars

\* The same under the scheduling Go gives: a goroutine that can run does
\* run, and select takes one of its ready cases at random, so a case that
\* is ready again and again is taken.
SpecAnilloJusto ==
    /\ SpecAnillo
    /\ WF_vars(PrincipalEnvia) /\ WF_vars(PrincipalEspera) /\ WF_vars(CerrarDone)
    /\ \A id \in NodoIDs :
          /\ WF_vars(NodoEnvia(id))
          /\ SF_vars(NodoRecibe(id))
          /\ SF_vars(NodoTermina(id))

\* func: wsHandler itself waits in `<-done` (part_000:209) while the reader
\* goroutine serves the connection; done is closed only by wsHandler's own
\* deferred close(done), so that receive never completes.
EsperaDone == variante = "func"
\* wsHandler has returned and its deferred calls have run.
ManejadorRetorno == ~EsperaDone /\ manejador = "fin"

\* SpecWS under fair scheduling: every goroutine that can take a step does,
\* and a read on a connection that is gone fails.
SpecWSJusto ==
    /\ SpecWS
    /\ WF_vars(LeerError /\ conexion # "abierta")
    /\ WF_vars(CerrarCanal) /\ WF_vars(CerrarConn)
    /\ WF_vars(ConsumidorRecibe) /\ WF_vars(ConsumidorEscribe)
    /\ WF_vars(MpiError) /\ WF_vars(MpiFinError) /\ WF_vars(MpiInicio)
    /\ WF_vars(MpiCabecera) /\ WF_vars(MpiSector) /\ WF_vars(MpiResumen)
    /\ WF_vars(MpiFinal)

\* SpecTodo under fair scheduling of the goroutines: the consumer, the runs
\* and the workers take every step they can, and a handler that has left its
\* command loop runs its deferred calls.  Nothing makes conn.ReadJSON return:
\* the handler may stay in it for as long as the client sends nothing.
SpecTodoJusto ==
    /\ SpecTodo
    /\ WF_vars(CerrarCanal) /\ WF_vars(CerrarConn)
    /\ WF_vars(ConsumidorRecibe) /\ WF_vars(ConsumidorEscribe)
    /\ WF_vars(MpiError) /\ WF_vars(MpiFinError) /\ WF_vars(MpiInicio)
    /\ WF_vars(MpiCabecera) /\ WF_vars(MpiSector) /\ WF_vars(MpiResumen)
    /\ WF_vars(MpiFinal)
    /\ WF_vars(OmpError) /\ WF_vars(OmpFinError) /\ WF_vars(OmpInicio)
    /\ WF_vars(OmpBarrera) /\ WF_vars(OmpAgregar) /\ WF_vars(OmpResumen)
    /\ WF_vars(OmpFinal)
    /\ \A w \in {0} :
          /\ WF_vars(AutoVuelta(w)) /\ WF_vars(AutoMejor(w)) /\ WF_vars(AutoLock(w))
          /\ WF_vars(AutoEscribir(w)) /\ WF_vars(AutoDefer(w)) /\ WF_vars(AutoFatal(w))
    /\ \A p \in Productores : WF_vars(EntraWriteJSON(p))

\* ------------------------------------------------------------ properties
Clase(m) == m.texto[1]
\* Positions in e of the records of a kind and class.
Indices(e, tipo, clase) ==
    {i \in 1..Len(e) : e[i].tipo = tipo /\ Clase(e[i]) = clase}
DeTipo(e, tipo) == {i \in 1..Len(e) : e[i].tipo = tipo}
EsPrefijo(a, b) == Len(a) <= Len(b) /\ SubSeq(b, 1, Len(a)) = a
RECURSIVE EsSubsecuencia(_, _)
EsSubsecuencia(d, e) ==
    IF d = <<>> THEN TRUE
    ELSE IF e = <<>> THEN FALSE
    ELSE IF Head(d) = Head(e) THEN EsSubsecuencia(Tail(d), Tail(e))
    ELSE EsSubsecuencia(d, Tail(e))
Rango(f) == {f[x] : x \in DOMAIN f}
\* The least duration of a non-empty sequence of durations.
Minimo(h) == CHOOSE t \in Rango(h) : \A u \in Rango(h) : ~Menor(u, t)

MpiEnviados == enviados[PMpi]
MpiValido == mpi.pc # "no" /\ mpi.sectores >= 1
\* The coordinator has passed the join barrier (it scans the table, or has).
Agregando ==
    omp.cantidadAutos >= 1 /\ omp.pc \in {"agregar", "resumen", "final", "fin"}
Agregado ==
    omp.cantidadAutos >= 1 /\ omp.pc \in {"resumen", "final", "fin"}

\* C1 (as claimed): a ring run with sectorCount >= 1 submits one start
\* record before every per-sector record, at most (and, once the run has
\* returned, exactly) sectorCount * lapCount per-sector records, then exactly
\* one summary record after all of them, then exactly one done record, topic
\* ring, which is the last record of the run.
\* Fails in the "mutex" revision, whose ring run sends no summary record.
C1_RingSequence ==
    MpiValido =>
        LET e == MpiEnviados
            ini == Indices(e, "registro", "inicio")
            sec == Indices(e, "registro", "sector")
            res == DeTipo(e, "resumen")
            fin == DeTipo(e, "finalizado")
        IN /\ \A i \in 1..Len(e) : e[i].topico = "mpi"
           /\ Cardinality(ini) <= 1 /\ Cardinality(res) <= 1 /\ Cardinality(fin) <= 1
           /\ \A i \in sec : \E j \in ini : j < i
           /\ \A i \in res : \A j \in sec : j < i
           /\ \A i \in fin : i = Len(e) /\ res # {}
           /\ mpi.pc = "fin" =>
                 /\ Cardinality(sec) = mpi.sectores * mpi.vueltas
                 /\ Cardinality(ini) = 1
                 /\ Cardinality(res) = 1
                 /\ Cardinality(fin) = 1

\* C2 (as claimed): when the parallel run reaches aggregation the table has
\* exactly workerCount entries, entry w carries workerID w and the resolved
\* trialCount, and its bestTime is the minimum of worker w's own durations.
\* Fails when a worker's send panics on the closed channel: its deferred
\* completion signal lets the coordinator pass the barrier before the
\* process dies, and the worker's entry was never written.
C2_TableAtAggregation ==
    Agregando =>
        /\ DOMAIN resultados = 0..(omp.cantidadAutos - 1)
        /\ \A w \in DOMAIN resultados :
              /\ Len(autos[w].hist) = omp.vueltas
              /\ resultados[w] =
                    ResultadoOpenMP(w + 1, Minimo(autos[w].hist), omp.vueltas)

\* C3: the overall best selected by the scan is a table entry with the
\* minimum bestTime, and among the entries with that minimum it has the
\* lowest workerID; it is determined by the table contents.
C3_OverallBest ==
    Agregado =>
        LET g == omp.mejorGeneral
        IN /\ g \in Rango(resultados)
           /\ \A r \in Rango(resultados) :
                 /\ ~Menor(r.MejorVuelta, g.MejorVuelta)
                 /\ r.MejorVuelta = g.MejorVuelta => g.AutoID <= r.AutoID
\* Two workers finished with the same best time; the first one was selected.
C3_Witness ==
    /\ omp.pc = "fin" /\ omp.cantidadAutos = 2
    /\ \A w \in DOMAIN autos : autos[w].pc = "fin"
    /\ resultados[0].MejorVuelta = resultados[1].MejorVuelta
    /\ omp.mejorGeneral = resultados[0]

\* C4 (as claimed): while the coordinator scans the table, or after, every
\* worker has finished all its trials and has written its entry.
\* Fails through the same panic as C2.
C4_JoinBarrier ==
    Agregando =>
        \A w \in DOMAIN autos :
            /\ autos[w].pc = "fin"
            /\ Len(autos[w].hist) = omp.vueltas
            /\ resultados[w] # ResultadoCero

\* C5 (as claimed): no two workers are inside their write of the result
\* table at the same time.
\* Fails in the "canal" revision, which writes the slice without a lock.
C5_ExclusiveWrites ==
    Cardinality({w \in DOMAIN autos : autos[w].pc = "escribir"}) <= 1

\* C6 (as claimed): every record a producer submitted is handed to the
\* transport exactly once, also the records that were still buffered when
\* the consumer stopped on a write error or the handler closed the sink.
\* Fails: the consumer returns on the first write error and the handler
\* closes the connection without waiting for the buffer to drain.
C6_NothingLost ==
    (ConCanal /\ consumidor \in {"fin", "error"}) =>
        \A p \in Productores : entregados[p] = enviados[p]

\* C7: the transport receives the records of each producer in the order
\* in which that producer submitted them.
C7_ProducerOrder ==
    \A p \in Productores : EsSubsecuencia(entregados[p], enviados[p])
\* The ring run and the dispatcher have both delivered records through the
\* channel, and two records wait in the buffer.
C7_Witness ==
    /\ ConCanal
    /\ Len(entregados[PMpi]) >= 2
    /\ Len(entregados[PWs]) >= 1
    /\ Len(enviar) = 2

\* C8 (as claimed): a submit after the handler closed the sink fails with an
\* error for that producer only; the process does not crash.
\* Fails: a send on the closed channel panics and nothing recovers it.
C8_NoCrash == ~caido

\* C9 (as claimed): once the connection is closed, no run task submits a
\* further record or goes on with its sectors.
\* Fails in the "func" revision: the run is never told and ignores the
\* write errors.
C9_StopsAfterClose ==
    [][conexion = "cerrada" => (enviados' = enviados /\ mpi' = mpi)]_vars

\* The two records of a ring run whose sectorCount is below 1.
MpiSoloError ==
    <<MpiMsg("registro", <<"error">>), MpiMsg("finalizado", <<"fin">>)>>
\* C10: a ring run with sectorCount < 1 submits the error log record, then
\* the done record, both with topic ring, and nothing else.
C10_RingInvalid ==
    (mpi.pc # "no" /\ mpi.sectores < 1) =>
        /\ EsPrefijo(MpiEnviados, MpiSoloError)
        /\ mpi.pc = "fin" => MpiEnviados = MpiSoloError
\* A run with sectorCount < 1 has returned after its two records.
C10_Witness ==
    mpi.pc = "fin" /\ mpi.sectores < 1 /\ Len(MpiEnviados) = 2

\* The two records of a parallel run whose workerCount is below 1.
OmpSoloError ==
    <<OmpMsg("registro", <<"error">>), OmpMsg("finalizado", <<"fin">>)>>
\* C11: a parallel run with workerCount < 1 (any trialCount) submits the
\* error log record, then the done record, both with topic parallel, and
\* nothing else; it spawns no worker, never allocates or writes the result
\* table and never scans it.
C11_ParallelInvalid ==
    (omp.pc # "no" /\ omp.cantidadAutos < 1) =>
        /\ omp.pc \in {"entrada", "fin_error", "fin"}
        /\ EsPrefijo(enviados[POmp], OmpSoloError)
        /\ omp.pc = "fin" => enviados[POmp] = OmpSoloError
        /\ autos = <<>> /\ resultados = <<>> /\ pendientes = 0
        /\ \A w \in AutoIDs : enviados[PAuto(w)] = <<>>
        /\ omp.mejorGeneral = GeneralInicial
\* A run with workerCount < 1 has returned after its two records, for a
\* trialCount below 1 as well as for one above.
C11_Witness ==
    /\ omp.pc = "fin" /\ omp.cantidadAutos < 1 /\ omp.vueltas > 1
    /\ enviados[POmp] = OmpSoloError

\* The ring run was called with a lapCount below 1 and has sent its start record.
MpiCoercido ==
    mpi.pc \notin {"no", "entrada"} /\ mpi.sectores >= 1 /\ mpi.pedidas < 1
\* The parallel run was called with a trialCount below 1 and has sent its
\* start record.
OmpCoercido ==
    omp.pc \notin {"no", "entrada"} /\ omp.cantidadAutos >= 1 /\ omp.pedidas < 1
\* C12: a repetition count below 1 is coerced to 1 and is not an error: with
\* a unit count >= 1, the run has the records of the run with count 1 (the
\* start record reports 1; one lap header and sectorCount per-sector records,
\* all of lap 1; one trial record per worker, of trial 1) and the table of
\* the run with count 1 (workerCount entries, each written entry reporting 1).
C12_Coercion ==
    /\ MpiCoercido =>
          /\ mpi.vueltas = 1
          /\ Head(MpiEnviados) = MpiMsg("registro", <<"inicio", mpi.sectores, 1>>)
          /\ Indices(MpiEnviados, "registro", "error") = {}
          /\ \A i \in Indices(MpiEnviados, "registro", "vuelta") :
                MpiEnviados[i].texto[2] = 1
          /\ \A i \in Indices(MpiEnviados, "registro", "sector") :
                MpiEnviados[i].texto[4] = 1
          /\ Cardinality(Indices(MpiEnviados, "registro", "vuelta")) <= 1
          /\ Cardinality(Indices(MpiEnviados, "registro", "sector")) <= mpi.sectores
          /\ mpi.pc = "fin" =>
                /\ Cardinality(Indices(MpiEnviados, "registro", "vuelta")) = 1
                /\ Cardinality(Indices(MpiEnviados, "registro", "sector")) = mpi.sectores
    /\ OmpCoercido =>
          /\ omp.vueltas = 1
          /\ Head(enviados[POmp]) =
                OmpMsg("registro", <<"inicio", omp.cantidadAutos, 1>>)
          /\ Indices(enviados[POmp], "registro", "error") = {}
          /\ DOMAIN resultados = 0..(omp.cantidadAutos - 1)
          /\ DOMAIN autos = DOMAIN resultados
          /\ \A w \in DOMAIN resultados :
                /\ resultados[w] # ResultadoCero => resultados[w].CantidadVueltas = 1
                /\ \A i \in Indices(enviados[PAuto(w)], "registro", "vuelta") :
                      enviados[PAuto(w)][i].texto[3] = 1
                /\ Cardinality(Indices(enviados[PAuto(w)], "registro", "vuelta")) <= 1
                /\ autos[w].pc = "fin" =>
                      /\ Cardinality(Indices(enviados[PAuto(w)], "registro", "vuelta")) = 1
                      /\ resultados[w].CantidadVueltas = 1
\* Both runs were called with a repetition count below 1 and a unit count of
\* 1 or more, and both have returned after their done record.
C12_Witness ==
    /\ MpiCoercido /\ mpi.pc = "fin"
    /\ OmpCoercido /\ omp.pc = "fin"
    /\ \A w \in DOMAIN autos : autos[w].pc = "fin"

OmpEnviados == enviados[POmp]
\* The trial records worker w has submitted.
Pruebas(w) == Indices(enviados[PAuto(w)], "registro", "vuelta")
\* C13: the records of a parallel run with workerCount >= 1: the start
\* record before every other record of the run; trialCount trial records per
\* worker (no more at any time, exactly that many once the summary is
\* submitted); one summary record, submitted when every worker has submitted
\* its last record; then one done record, topic parallel, the last record of
\* the run.
C13_ParallelSequence ==
    (omp.pc # "no" /\ omp.cantidadAutos >= 1) =>
        /\ Len(OmpEnviados) <= 3
        /\ Len(OmpEnviados) >= 1 =>
              OmpEnviados[1] = OmpMsg("registro",
                                      <<"inicio", omp.cantidadAutos, omp.vueltas>>)
        /\ Len(OmpEnviados) >= 2 => OmpEnviados[2].tipo = "resumen"
        /\ Len(OmpEnviados) >= 3 => OmpEnviados[3] = OmpMsg("finalizado", <<"fin">>)
        /\ omp.pc = "fin" => Len(OmpEnviados) = 3
        /\ OmpEnviados = <<>> => \A w \in AutoIDs : enviados[PAuto(w)] = <<>>
        /\ \A w \in DOMAIN autos :
              /\ Cardinality(Pruebas(w)) <= omp.vueltas
              /\ \A i \in Pruebas(w) : enviados[PAuto(w)][i].topico = "openmp"
              /\ Len(OmpEnviados) >= 2 =>
                    /\ Cardinality(Pruebas(w)) = omp.vueltas
                    /\ autos[w].pc = "fin"
        /\ Len(OmpEnviados) >= 2 => DOMAIN autos = 0..(omp.cantidadAutos - 1)
\* A run of two workers and two trials each has returned; both workers also
\* submitted new-best records in between.
C13_Witness ==
    /\ omp.pc = "fin" /\ omp.cantidadAutos = 2 /\ omp.vueltas = 2
    /\ Len(OmpEnviados) = 3
    /\ \A w \in {0, 1} :
          /\ Cardinality(Pruebas(w)) = 2
          /\ Indices(enviados[PAuto(w)], "registro", "mejor") # {}

\* The goroutine that ranges over `enviar` (canal, mutex).
PConsumidor == <<"consumidor", 0>>
\* The tasks that are inside conn.WriteJSON.
Escribiendo ==
    escritores \cup (IF consumidor = "escribir" THEN {PConsumidor} ELSE {})
\* C14 (as claimed): at most one task at a time is writing a record to the
\* transport connection.
\* Fails in the func revision: send() calls conn.WriteJSON from the calling
\* goroutine and holds no lock, so the ring run and the parallel run (or
\* two workers) are inside it together.
C14_OneWriter == Cardinality(Escribiendo) <= 1

\* With the channel sink only the consumer goroutine ever writes.
C14_CanalUnEscritor == ConCanal => Escribiendo \subseteq {PConsumidor}

\* C15 (as claimed): absent or non-numeric fields are filled with sectors = 5
\* and laps = 3 for a start-ring command, cars = 4 and laps = 5 for a
\* start-parallel command; a numeric field that is present is passed on as
\* it is.
\* Fails in the first revision of main.go and in the func revision, whose
\* defaults are sectors = 1, laps = 1 and cars = 3.
C15_Defaults ==
    /\ mpi.pc # "no" =>
          /\ mpi.sectores = Campo(mpi.campos[1], 5)
          /\ mpi.pedidas = Campo(mpi.campos[2], 3)
    /\ omp.pc # "no" =>
          /\ omp.cantidadAutos = Campo(omp.campos[1], 4)
          /\ omp.pedidas = Campo(omp.campos[2], 5)
\* The defaults of the claim are those of the second revision of main.go.
C15_MutexDefaults == variante = "mutex" => C15_Defaults
\* In every revision a numeric field that is present is passed on as it is,
\* and an absent laps field of a start-parallel command becomes 5.
C15_PassThrough ==
    /\ mpi.pc # "no" =>
          /\ mpi.campos[1] # SinCampo => mpi.sectores = mpi.campos[1][1]
          /\ mpi.campos[2] # SinCampo => mpi.pedidas = mpi.campos[2][1]
    /\ omp.pc # "no" =>
          /\ omp.campos[1] # SinCampo => omp.cantidadAutos = omp.campos[1][1]
          /\ omp.pedidas = Campo(omp.campos[2], 5)

\* C16: a command whose action is not a start action makes the dispatcher
\* submit exactly one log record without topic; the step starts no run,
\* changes nothing of the runs in progress (their position, their records,
\* the table), and leaves the dispatcher reading the next command on the
\* open sink.
C16_UnknownCommand ==
    [][otros' # otros =>
          /\ otros' = otros + 1
          /\ \E msg \in {enviados'[PWs][Len(enviados'[PWs])]} :
                /\ enviados'[PWs] = Append(enviados[PWs], msg)
                /\ msg.tipo = "registro" /\ msg.topico = ""
          /\ Len(enviados'[PWs]) = otros'
          /\ \A p \in Productores \ {PWs} : enviados'[p] = enviados[p]
          /\ mpi' = mpi /\ omp' = omp /\ autos' = autos
          /\ resultados' = resultados /\ pendientes' = pendientes /\ mutex' = mutex
          /\ manejador' = "leer" /\ cerrado' = cerrado /\ conexion' = conexion
          /\ caido' = caido
    ]_vars
\* The dispatcher has answered an unrecognised command and reads on while a
\* ring run and a parallel run are in progress.
C16_Witness ==
    /\ otros = 1 /\ Len(enviados[PWs]) = 1 /\ manejador = "leer"
    /\ mpi.pc \notin {"no", "entrada", "fin"}
    /\ omp.pc \notin {"no", "entrada", "fin"}

\* The done records among the records e of one run.
Finales(e) == DeTipo(e, "finalizado")
\* The sequence contract of one run over its own records e: a run with a
\* unit count >= 1 has its start record first; at most one done record, and
\* nothing after it; a run that has returned has its done record.
ContratoCorrida(e, unidades, terminada, inicio) ==
    /\ (e # <<>> /\ unidades >= 1) => Head(e) = inicio
    /\ Cardinality(Finales(e)) <= 1
    /\ \A i \in Finales(e) : i = Len(e)
    /\ terminada => Cardinality(Finales(e)) = 1
\* C17: the runs started on one connection are tasks of their own, so a ring
\* run and a parallel run can be in progress at once with their records
\* interleaved; whatever the interleaving, each run's own records keep that
\* run's contract: start record first, exactly one done record, which is the
\* last record of the run.  The coordinator's done record also comes after
\* every record of its workers.
C17_ConcurrentRuns ==
    /\ mpi.pc # "no" =>
          ContratoCorrida(MpiEnviados, mpi.sectores, mpi.pc = "fin",
                          MpiMsg("registro", <<"inicio", mpi.sectores, mpi.vueltas>>))
    /\ omp.pc # "no" =>
          /\ ContratoCorrida(OmpEnviados, omp.cantidadAutos, omp.pc = "fin",
                             OmpMsg("registro",
                                    <<"inicio", omp.cantidadAutos, omp.vueltas>>))
          /\ Finales(OmpEnviados) # {} => \A w \in DOMAIN autos : autos[w].pc = "fin"
          /\ \A w \in DOMAIN autos : Finales(enviados[PAuto(w)]) = {}
\* A ring run and a parallel run are in progress at once and both have
\* records on the transport already: the two runs interleave.
C17_Witness ==
    /\ mpi.pc \notin {"no", "entrada", "fin"} /\ mpi.sectores >= 1
    /\ omp.pc \notin {"no", "entrada", "fin"} /\ omp.cantidadAutos >= 1
    /\ entregados[PMpi] # <<>> /\ entregados[POmp] # <<>>
    /\ \E w \in DOMAIN autos : entregados[PAuto(w)] # <<>>
\* Both interleaved runs have returned, each after its own done record.
C17_BothDone ==
    /\ mpi.pc = "fin" /\ mpi.sectores >= 1 /\ omp.pc = "fin" /\ omp.cantidadAutos >= 1
    /\ Len(MpiEnviados) >= 3 /\ Len(OmpEnviados) = 3

\* lo <= t <= hi on durations, t a whole number of hundredths.
EnRango(t, lo, hi) ==
    /\ t[1] \in Nat /\ t[2] \in 0..99
    /\ ~Menor(t, lo) /\ ~Menor(hi, t)
SectorEnRango(t) == EnRango(t, <<12, 0>>, <<35, 99>>)
VueltaEnRango(t) == EnRango(t, <<75, 0>>, <<95, 99>>)
\* No producer has submitted anything yet.
NadaEnviado == \A p \in Productores : enviados[p] = <<>>
\* C18: every generated duration is a whole number of hundredths inside its
\* range: [12.00, 35.99] for a per-sector duration, [75.00, 95.99] for a
\* trial duration.  Stated over every duration a record or the table
\* carries and, before the runs start, over every value
\* 0 .. n-1 that rand.Intn(n) can return.
C18_Durations ==
    /\ \A i \in Indices(MpiEnviados, "registro", "sector") :
          SectorEnRango(MpiEnviados[i].texto[3])
    /\ \A w \in DOMAIN autos :
          /\ \A i \in Pruebas(w) : VueltaEnRango(enviados[PAuto(w)][i].texto[4])
          /\ \A i \in Indices(enviados[PAuto(w)], "registro", "mejor") :
                VueltaEnRango(enviados[PAuto(w)][i].texto[3])
          /\ \A i \in DOMAIN autos[w].hist : VueltaEnRango(autos[w].hist[i])
          /\ resultados[w] # ResultadoCero => VueltaEnRango(resultados[w].MejorVuelta)
    /\ NadaEnviado =>
          /\ \A r \in 0..(RangoSector - 1) : SectorEnRango(Segundos(r + BaseSector))
          /\ \A r \in 0..(RangoVuelta - 1) : VueltaEnRango(Segundos(r + BaseVuelta))
\* Both runs have returned: a per-sector duration and a trial duration were
\* drawn at an end of their range, submitted, and the trial reached the table.
C18_Witness ==
    /\ mpi.pc = "fin" /\ omp.pc = "fin"
    /\ \E i \in Indices(MpiEnviados, "registro", "sector") :
          MpiEnviados[i].texto[3] = <<34, 99>>
    /\ \E w \in DOMAIN autos :
          /\ \E i \in Pruebas(w) : enviados[PAuto(w)][i].texto[4] = <<95, 98>>
          /\ resultados[w].MejorVuelta = <<95, 98>>

\* The summary records the coordinator has submitted.
Resumenes == {i \in 1..Len(OmpEnviados) : OmpEnviados[i].tipo = "resumen"}
\* The per-worker table and the overall-best entry of a summary record.
TablaDe(msg) == msg.texto[2]
GeneralDe(msg) == msg.texto[3]
\* C19: in the summary of a parallel run with workerCount >= 1 the
\* overall-best entry is one of the per-worker entries of that summary (same
\* workerID, bestTime and trialCount), never the placeholder (workerID -1,
\* bestTime 1e9), and the summary lists exactly workerCount entries.
C19_BestIsAnEntry ==
    \A i \in Resumenes :
        /\ omp.cantidadAutos >= 1
        /\ DOMAIN TablaDe(OmpEnviados[i]) = 0..(omp.cantidadAutos - 1)
        /\ GeneralDe(OmpEnviados[i]) \in Rango(TablaDe(OmpEnviados[i]))
        /\ GeneralDe(OmpEnviados[i]).AutoID # -1
        /\ GeneralDe(OmpEnviados[i]).MejorVuelta # MejorInicial
        /\ GeneralDe(OmpEnviados[i]).AutoID \in 1..omp.cantidadAutos
\* The summary of a run of two workers is submitted and its overall best is
\* the entry of the second worker.
C19_Witness ==
    /\ omp.cantidadAutos = 2
    /\ \E i \in Resumenes :
          /\ GeneralDe(OmpEnviados[i]) = TablaDe(OmpEnviados[i])[1]
          /\ GeneralDe(OmpEnviados[i]) # TablaDe(OmpEnviados[i])[0]
          /\ GeneralDe(OmpEnviados[i]).AutoID = 2

EsRegistroSector(m) == m.tipo = "registro" /\ Clase(m) = "sector"
\* The per-sector records of the ring run, in the order of their submission.
RegistrosSector == SelectSeq(MpiEnviados, EsRegistroSector)
\* Lap and stage of the k-th visit of a ring of n stages.
VueltaDeVisita(k, n) == ((k - 1) \div n) + 1
SectorDeVisita(k, n) == ((k - 1) % n) + 1
\* C20: the k-th per-sector record of a ring run is the one of lap
\* ((k-1) div sectorCount) + 1, stage ((k-1) mod sectorCount) + 1: stages go
\* 1, 2, ..., sectorCount inside a lap and lap L is complete before lap L+1
\* starts; no record (per-sector or lap header) names a lap above the
\* resolved lapCount or a stage above sectorCount; a run that has returned
\* has made all sectorCount * lapCount visits.
C20_RingOrder ==
    /\ (mpi.pc = "no" \/ mpi.sectores < 1) => RegistrosSector = <<>>
    /\ (mpi.pc \notin {"no", "entrada"} /\ mpi.sectores >= 1) =>
          /\ Len(RegistrosSector) <= mpi.sectores * mpi.vueltas
          /\ \A k \in 1..Len(RegistrosSector) :
                /\ RegistrosSector[k].texto[4] = VueltaDeVisita(k, mpi.sectores)
                /\ RegistrosSector[k].texto[2] = SectorDeVisita(k, mpi.sectores)
                /\ RegistrosSector[k].texto[4] \in 1..mpi.vueltas
                /\ RegistrosSector[k].texto[2] \in 1..mpi.sectores
          /\ \A i \in Indices(MpiEnviados, "registro", "vuelta") :
                MpiEnviados[i].texto[2] \in 1..mpi.vueltas
          /\ mpi.pc = "fin" => Len(RegistrosSector) = mpi.sectores * mpi.vueltas
\* A ring run of two sectors and two laps has returned after its four visits.
C20_Witness ==
    /\ mpi.pc = "fin" /\ mpi.sectores = 2 /\ mpi.vueltas = 2
    /\ Len(RegistrosSector) = 4
    /\ RegistrosSector[3].texto[4] = 2 /\ RegistrosSector[3].texto[2] = 1

\* Sum of f over the node ids.
RECURSIVE SumaNodos(_, _)
SumaNodos(f, S) ==
    IF S = {} THEN 0
    ELSE LET x == CHOOSE y \in S : TRUE IN f[x] + SumaNodos(f, S \ {x})
\* Messages buffered in the five channels plus nodes holding a received message.
Tokens ==
    SumaNodos([c \in NodoIDs |-> Len(anillo.canales[c])], NodoIDs)
    + Cardinality({id \in NodoIDs : anillo.nodos[id].pc = "enviar"})
\* C21: in the concurrent ring exactly one token exists at every instant of
\* the run, from the moment mpi() has put it into the ring (none exists
\* before): messages buffered in the five channels plus nodes holding a
\* received message make 1, also while nodes terminate on the done signal.
\* No channel ever buffers more than its single slot.
C21_OneToken ==
    /\ Tokens = IF anillo.principal = "enviar" THEN 0 ELSE 1
    /\ \A c \in NodoIDs : Len(anillo.canales[c]) <= CapCanal
    /\ \A id \in NodoIDs :
          (anillo.nodos[id].pc = "enviar") = (anillo.nodos[id].msj # <<>>)
\* Done is closed, some nodes have terminated, and a node that has not is
\* holding the token.
C21_Witness ==
    /\ anillo.done
    /\ \E id \in NodoIDs : anillo.nodos[id].pc = "fin"
    /\ \E id \in NodoIDs : anillo.nodos[id].pc = "enviar"
\* The token is left in the channel of a node that has terminated.
C21_TokenParked ==
    /\ \A id \in NodoIDs : anillo.nodos[id].pc = "fin"
    /\ \E c \in NodoIDs : anillo.canales[c] # <<>>

\* Node id takes a message out of its in channel in this step.
RecibeEnPaso(id) ==
    anillo.nodos[id].pc = "select" /\ anillo'.nodos[id].pc = "enviar"
\* Node id puts a message into a channel in this step.
EnviaEnPaso(id) ==
    anillo.nodos[id].pc = "enviar" /\ anillo'.nodos[id].pc = "select"
\* C22: the token goes strictly along the cycle.  A node that receives is
\* the successor of the node that received last (the first is node 2, whose
\* id is 1, fed by mpi() in the name of node 1); what it receives was sent
\* by its predecessor and taken from the predecessor's channel only; when it
\* forwards, only its own out channel, which is its successor's in channel,
\* gets the message.  So the nodes process in the order 2, 3, 4, 5, 1, 2, ...
C22_CyclicOrder ==
    [][\A id \in NodoIDs :
          /\ RecibeEnPaso(id) =>
                /\ IF anillo.ultimo = -1 THEN id = 1 ELSE In(id) = anillo.ultimo
                /\ anillo.ultimo # id
                /\ (id - anillo.ultimo) % 5 = 1 \/ anillo.ultimo = -1
                /\ anillo'.nodos[id].msj = <<Ping(((id + 4) % 5) + 1)>>
                /\ \A c \in NodoIDs :
                      anillo'.canales[c] =
                          IF c = (id + 4) % 5 THEN <<>> ELSE anillo.canales[c]
                /\ anillo'.ultimo = id
          /\ EnviaEnPaso(id) =>
                /\ anillo.ultimo = id
                /\ \A c \in NodoIDs :
                      anillo'.canales[c] =
                          IF c = id THEN <<Ping(id + 1)>> ELSE anillo.canales[c]
                /\ In((id + 1) % 5) = id
    ]_vars
\* The token has gone round: node 1 (id 0) holds a message it received from
\* node 5, and node 2 is still running.
C22_Witness ==
    /\ anillo.nodos[0].pc = "enviar" /\ anillo.nodos[0].msj = <<Ping(5)>>
    /\ anillo.ultimo = 0 /\ anillo.nodos[1].pc = "select"

\* Every node has returned after one call of WgAnillo.Done(), and mpi() has
\* returned from WgAnillo.Wait().
AnilloTerminado ==
    /\ \A id \in NodoIDs : anillo.nodos[id].pc = "fin" /\ anillo.hechos[id] = 1
    /\ anillo.wg = 0
    /\ anillo.principal = "fin"
\* C23: once the done signal of the concurrent ring is closed, every node
\* task eventually terminates, having called WgAnillo.Done exactly once (never
\* twice), and mpi() returns: no node stays blocked receiving from a
\* predecessor that has exited or sending to a successor that has exited,
\* and none relays the token forever.
C23_RingTerminates ==
    /\ [](\A id \in NodoIDs : anillo.hechos[id] <= 1)
    /\ [](anillo.wg >= 0)
    /\ (anillo.done ~> AnilloTerminado)
\* The ring has shut down with the token parked in the channel of node 3,
\* which returned without taking it.
C23_Witness ==
    /\ AnilloTerminado
    /\ anillo.canales[1] # <<>> /\ anillo.ultimo = 1
\* Under weak fairness of the receive and done cases alone the token can be
\* relayed for ever: each node is handed the token again before it takes
\* its done case.
SpecAnilloDebil ==
    /\ SpecAnillo
    /\ WF_vars(PrincipalEnvia) /\ WF_vars(PrincipalEspera) /\ WF_vars(CerrarDone)
    /\ \A id \in NodoIDs :
          WF_vars(NodoEnvia(id)) /\ WF_vars(NodoRecibe(id)) /\ WF_vars(NodoTermina(id))

\* Worker w executes its table write in this step.
EscribeEnPaso(w) ==
    /\ w \in DOMAIN autos /\ autos[w].pc = "escribir"
    /\ w \in DOMAIN autos' /\ autos'[w].pc = "defer"
\* C24: each worker writes the result table exactly once, only after its
\* last trial, and only at its own index.  Every step that changes the
\* table of a running run is the write of one worker w that has submitted
\* all its trial records; entry w held the zero value before and holds w's
\* own result after, and every other entry is unchanged; a worker past its
\* write never writes again.  The running best of a worker changes only in
\* that worker's own trial step.
C24_WriteOnceOwnIndex ==
    [][/\ (resultados' # resultados /\ DOMAIN resultados' = DOMAIN resultados) =>
             \E w \in DOMAIN autos :
                /\ EscribeEnPaso(w)
                /\ Cardinality(Pruebas(w)) = omp.vueltas
                /\ Len(autos[w].hist) = omp.vueltas
                /\ resultados[w] = ResultadoCero
                /\ resultados'[w] = ResultadoOpenMP(w + 1, autos[w].mejor, omp.vueltas)
                /\ \A u \in DOMAIN resultados : u # w => resultados'[u] = resultados[u]
       /\ \A w \in DOMAIN autos :
             /\ EscribeEnPaso(w) => resultados' # resultados
             /\ (w \in DOMAIN autos' /\ autos[w].pc \in {"defer", "fin", "fatal"}) =>
                   /\ autos'[w].pc \in {"defer", "fin", "fatal"}
                   /\ resultados'[w] = resultados[w]
             /\ (w \in DOMAIN autos' /\ autos'[w].mejor # autos[w].mejor) =>
                   /\ autos[w].pc = "vuelta"
                   /\ Len(autos'[w].hist) = Len(autos[w].hist) + 1
                   /\ \A u \in DOMAIN autos : u # w => autos'[u] = autos[u]
    ]_vars
\* The second worker has written its entry while the first, still in its
\* trials, has not: entry 0 is the zero value.
C24_Witness ==
    /\ omp.cantidadAutos = 2 /\ DOMAIN autos = {0, 1}
    /\ autos[1].pc \in {"defer", "fin"} /\ ~autos[1].panico
    /\ resultados[1] = ResultadoOpenMP(2, autos[1].mejor, omp.vueltas)
    /\ autos[0].pc \in {"vuelta", "mejor"} /\ resultados[0] = ResultadoCero

\* The records worker w owes for the trial durations h[k..], its running
\* minimum being m before trial k: per trial its trial record, followed by a
\* new-best record exactly when the duration is strictly below m.
RECURSIVE RegistrosDebidos(_, _, _, _)
RegistrosDebidos(w, h, k, m) ==
    IF k > Len(h) THEN <<>>
    ELSE IF Menor(h[k], m)
         THEN <<AutoMsg(w, <<"vuelta", w + 1, k, h[k]>>),
                AutoMsg(w, <<"mejor", w + 1, h[k]>>)>>
              \o RegistrosDebidos(w, h, k + 1, h[k])
         ELSE <<AutoMsg(w, <<"vuelta", w + 1, k, h[k]>>)>>
              \o RegistrosDebidos(w, h, k + 1, m)
Debidos(w) == RegistrosDebidos(w, autos[w].hist, 1, MejorInicial)
Mejores(w) == Indices(enviados[PAuto(w)], "registro", "mejor")
\* C25: a worker submits a new-personal-best record exactly when a trial is
\* strictly below its running minimum (which starts at 1e9, above every
\* duration), right after that trial's record in its own order; a trial
\* equal to the minimum announces nothing.  The worker's records are the
\* owed records of its trials so far, the last new-best record possibly still
\* to be sent; the first record after the first trial record is a new-best
\* record, and a worker past its trials has sent between 1 and trialCount
\* new-best records.
C25_NewBest ==
    \A w \in DOMAIN autos :
        /\ EsPrefijo(enviados[PAuto(w)], Debidos(w))
        /\ Len(Debidos(w)) - Len(enviados[PAuto(w)]) <= 1
        /\ (autos[w].pc # "mejor" /\ ~autos[w].panico) =>
              enviados[PAuto(w)] = Debidos(w)
        /\ autos[w].pc = "mejor" =>
              /\ Len(Debidos(w)) = Len(enviados[PAuto(w)]) + 1
              /\ Clase(Debidos(w)[Len(Debidos(w))]) = "mejor"
        /\ Len(enviados[PAuto(w)]) >= 2 => Clase(enviados[PAuto(w)][2]) = "mejor"
        /\ Cardinality(Mejores(w)) <= Cardinality(Pruebas(w))
        /\ (autos[w].pc \in {"lock", "escribir", "fin"}
            \/ (autos[w].pc = "defer" /\ ~autos[w].panico)) =>
              /\ Cardinality(Mejores(w)) >= 1
              /\ Cardinality(Mejores(w)) <= omp.vueltas
              /\ autos[w].mejor = Minimo(autos[w].hist)
\* A worker has finished two trials of the same duration: the second, equal
\* to the running minimum, announced nothing.
C25_Witness ==
    \E w \in DOMAIN autos :
        /\ autos[w].pc = "fin" /\ Len(autos[w].hist) = 2
        /\ autos[w].hist[1] = autos[w].hist[2]
        /\ Cardinality(Mejores(w)) = 1 /\ Len(enviados[PAuto(w)]) = 3
\* A worker has finished two trials, the second strictly faster: two
\* new-best records.
C25_TwoBests ==
    \E w \in DOMAIN autos :
        /\ autos[w].pc = "fin" /\ Len(autos[w].hist) = 2
        /\ Cardinality(Mejores(w)) = 2 /\ Len(enviados[PAuto(w)]) = 4

\* Every value rand.Intn(n) can return.
TodosIntn(n) == 0..(n - 1)
\* Every per-sector duration and every trial duration the code can generate.
PosiblesSector == {Segundos(r + BaseSector) : r \in TodosIntn(RangoSector)}
PosiblesVuelta == {Segundos(r + BaseVuelta) : r \in TodosIntn(RangoVuelta)}
\* The two-decimal values from a to b hundredths inclusive.
DosDecimales(a, b) == {Segundos(c) : c \in a..b}
\* C26 (as claimed): the possible per-sector durations are exactly the
\* two-decimal values 12.00 .. 35.99 and the possible trial durations exactly
\* 75.00 .. 95.99; the upper ends 35.99 and 95.99 can be generated.
\* Stated where a run is about to draw a duration.
\* Fails: rand.Intn(2300)+1200 ends at 3499 and rand.Intn(2099)+7500 at 9598.
C26_WholeRange ==
    /\ mpi.pc = "sector" =>
          /\ <<35, 99>> \in PosiblesSector
          /\ PosiblesSector = DosDecimales(1200, 3599)
    /\ (\E w \in DOMAIN autos : autos[w].pc = "vuelta") =>
          /\ <<95, 99>> \in PosiblesVuelta
          /\ PosiblesVuelta = DosDecimales(7500, 9599)
\* What the generator covers: 12.00 .. 34.99 and 75.00 .. 95.98, every
\* two-decimal value in between, and the runs draw from inside these sets.
C26_ActualRange ==
    /\ mpi.pc = "sector" =>
          /\ PosiblesSector = DosDecimales(1200, 3499)
          /\ TiemposSector \subseteq PosiblesSector
    /\ (\E w \in DOMAIN autos : autos[w].pc = "vuelta") =>
          /\ PosiblesVuelta = DosDecimales(7500, 9598)
          /\ TiemposVuelta \subseteq PosiblesVuelta

\* The claimed trial range alone fails as well, in a parallel run.
C26_TrialRange ==
    (\E w \in DOMAIN autos : autos[w].pc = "vuelta") =>
        <<95, 99>> \in PosiblesVuelta

\* The records of producer p in a sequence of records, in order.
EsDe(p, q) == SelectSeq(q, LAMBDA m : m.prod = p)
\* The records of p that were submitted and are not on the transport yet:
\* the one the consumer is writing, then the buffered ones.
EnCamino(p) == EsDe(p, enMano) \o EsDe(p, enviar)
\* C27: the sink is bounded with backpressure.  The buffer never holds more
\* than its capacity; while it is full no submit completes, and the only
\* step that changes it is the consumer taking its oldest record; and as
\* long as the consumer is running, however slowly, every submitted record
\* is on the transport, in the consumer's hand or in the buffer: none is lost.
C27_Backpressure ==
    [][/\ Len(enviar) <= Capacidad /\ Len(enviar') <= Capacidad
       /\ (ConCanal /\ Len(enviar) = Capacidad) =>
             /\ enviados' = enviados
             /\ enviar' # enviar =>
                   /\ consumidor = "recibir" /\ consumidor' = "escribir"
                   /\ enviar' = Tail(enviar) /\ enMano' = <<Head(enviar)>>
       /\ (ConCanal /\ consumidor' \in {"recibir", "escribir"}) =>
             \A p \in Productores : enviados'[p] = entregados'[p] \o EnCamino(p)'
    ]_vars
\* The buffer is full, the consumer is inside a write, and the ring run and
\* the coordinator of the parallel run both wait with a record to submit.
C27_Witness ==
    /\ ConCanal /\ ~cerrado /\ Len(enviar) = Capacidad
    /\ consumidor = "escribir" /\ conexion = "abierta"
    /\ PorEnviar(PMpi) /\ PorEnviar(POmp)

\* C28 (as claimed): after the client disconnects, the command read fails
\* and the connection handler eventually returns and runs its deferred
\* cleanup (or the process has ended); it never stays blocked for ever.
\* Fails in the func revision: the reader goroutine returns, wsHandler stays
\* in `<-done`.
C28_HandlerReturns == (conexion = "rota") ~> (ManejadorRetorno \/ caido)
\* With the channel sink the handler does return after a disconnect, unless
\* the process has died of the panic of a run first.
C28_CanalReturns == (ConCanal /\ conexion = "rota") ~> (ManejadorRetorno \/ caido)
\* func: the reader goroutine at least closes the connection and returns.
C28_FuncReaderReturns ==
    (~ConCanal /\ conexion = "rota") ~> (manejador = "fin" /\ conexion = "cerrada")

\* The handler is still in its command loop: the sink is open.
SigueAbierta == manejador = "leer" /\ ~cerrado /\ ~caido
C29_WithConsumer ==
    /\ (mpi.pc # "no") ~> (mpi.pc = "fin" \/ ~SigueAbierta \/ consumidor = "error")
    /\ (omp.pc # "no") ~> (omp.pc = "fin" \/ ~SigueAbierta \/ consumidor = "error")
\* The state the runs are stuck in: consumer gone, sink open and full, a run
\* with a record to submit.
C29_Stuck ==
    /\ ConCanal /\ consumidor = "error" /\ SigueAbierta
    /\ Len(enviar) = Capacidad /\ (PorEnviar(PMpi) \/ PorEnviar(POmp))

\* Worker w has delivered its completion signal.
Senalado(w) == autos[w].pc \in {"fin", "fatal"}
\* C30 (as claimed): in the parallel run that joins through the unbuffered
\* done channel, each worker sends exactly one completion signal, after its
\* table write, and the coordinator receives exactly workerCount signals
\* before it aggregates.  The signals still to be received are those of the
\* workers that have not signalled; a worker that has signalled has written
\* its entry; once the coordinator is past the barrier every worker has
\* signalled and none is blocked in its send.
\* Fails through the panic of C8: the deferred `done <- struct{}{}` also runs
\* while a worker unwinds from a send on the closed sink, before any write.
C30_DoneChannel ==
    (variante = "canal" /\ omp.cantidadAutos >= 1 /\ omp.pc \notin {"no", "entrada"}) =>
        /\ DOMAIN autos = 0..(omp.cantidadAutos - 1)
        /\ pendientes = Cardinality({w \in DOMAIN autos : ~Senalado(w)})
        /\ \A w \in DOMAIN autos :
              Senalado(w) =>
                  resultados[w] = ResultadoOpenMP(w + 1, autos[w].mejor, omp.vueltas)
        /\ Agregando =>
              /\ pendientes = 0
              /\ \A w \in DOMAIN autos : autos[w].pc = "fin"
\* The same holds whenever no worker has met the closed sink.
C30_SinPanico ==
    (\A w \in DOMAIN autos : ~autos[w].panico) => C30_DoneChannel
\* In every case: one signal per worker, workerCount signals before the
\* aggregation, no worker left blocked in its send after the barrier.
C30_Signals ==
    (variante = "canal" /\ omp.cantidadAutos >= 1 /\ omp.pc \notin {"no", "entrada"}) =>
        /\ pendientes = Cardinality({w \in DOMAIN autos : ~Senalado(w)})
        /\ Agregando => \A w \in DOMAIN autos : Senalado(w)

====
